---- MODULE Spec2Model ----
(***************************************************************************)
(* A model of cordl's driver (src/main.rs) and naming configuration        *)
(* (src/generate/config.rs).  The driver is a straight-line sequence of    *)
(* whole-table passes over the type-definition table; the context          *)
(* collection it drives (make_from, make_nested_from, fill, ...) lives in  *)
(* generate/context_collection.rs, which is not part of the sources at     *)
(* hand, and is modelled from the specification's section 4.2.             *)
(***************************************************************************)
EXTENDS Integers, Sequences, FiniteSets, TLC

(***************************************************************************)
(* Bounds of the model.                                                    *)
(***************************************************************************)
\* Largest type-definition table that is explored.
NumTypes == 2
\* Largest generic method table that is explored.
MaxGenericMethods == 2
\* Longest sequence of creation requests that is explored.
MaxCalls == 3
\* Largest number of files under the header path that is explored.
MaxFiles == 3
\* Longest raw metadata name that is explored.
MaxNameLen == 2

\* u32::MAX, the `declaring_type_index` of a definition that has no declaring
\* type.  The all-ones word is written as the 32-bit signed number it reads as.
U32_MAX == -1

VARIABLES
    pc,                    \* position of main() in its body
    cli,                   \* the parsed command line (struct Cli)
    type_definitions,      \* metadata.global_metadata.type_definitions
    generic_method_table,  \* metadata_registration.generic_method_table
    blacklisted_types,     \* metadata.blacklisted_types
    custom_type_handler,   \* metadata.custom_type_handler (claimed tdis)
    nodes,                 \* the collection's CppType arena, in creation order
    alias_context,         \* the collection's tag -> context root aliases
    idx,                   \* the running index of the current loop
    calls,                 \* every call main() has made on its collaborators
    written,               \* the contexts whose files write_all has written
    exit_code,             \* the process exit status, -1 while running
    error,                 \* the call whose Err main() returned, "" when none
    fmt,                   \* format_files(): its file queue and its workers
    stale_output,          \* the output paths that hold a file of an earlier run
    raw_names              \* the raw metadata names handed to GenerationConfig

vars == <<pc, cli, type_definitions, generic_method_table, blacklisted_types,
          custom_type_handler, nodes, alias_context, idx, calls, written,
          exit_code, error, fmt, stale_output, raw_names>>

(***************************************************************************)
(* The input universe.                                                     *)
(***************************************************************************)
\* Full names a definition of the table may carry.
TypeNames == {"UnityEngine.XR.XRDisplaySubsystem", "System.Object"}

\* The names main() hands to blacklist_type, in call order (two of the list:
\* one the table may contain and one it never contains).
BlacklistNames == <<"UnityEngine.XR.XRDisplaySubsystem", "System.MonoLimitationAttribute">>

\* The names the registered handlers claim.
HandlerNames == <<"System.Object">>

Tdis(tbl) == DOMAIN tbl

RECURSIVE ReachesRoot(_, _, _)
ReachesRoot(d, i, fuel) ==
    IF d[i] = U32_MAX THEN TRUE
    ELSE IF fuel = 0 THEN FALSE
    ELSE ReachesRoot(d, d[i], fuel - 1)

\* declaring_type_index columns: every chain of declaring types ends.
DeclaringColumns(n) ==
    {d \in [0..(n - 1) -> {U32_MAX} \cup 0..(n - 1)] :
        \A i \in 0..(n - 1) : ReachesRoot(d, i, n)}

TypeTable(n, d, nm) ==
    [i \in 0..(n - 1) |-> [declaring_type_index |-> d[i], full_name |-> nm[i]]]

TypeTables ==
    UNION {{TypeTable(n, d, nm) :
                d \in DeclaringColumns(n), nm \in [0..(n - 1) -> TypeNames]} :
           n \in 1..NumTypes}

\* The definitions one definition refers to (its base, the types of its fields
\* and parameters).  Each reference is resolved on its own, so the explored
\* definitions carry at most one.
References(tbl) == {{}} \cup {{t} : t \in Tdis(tbl)}

\* Generic method tables: entry k names method spec n + 1 - k, so that the
\* entries differ from their positions.
GenericMethodTables ==
    {[k \in 1..n |-> n + 1 - k] : n \in 0..MaxGenericMethods}

\* The concrete type-argument lists of the generic requests that are explored.
TypeArgumentLists == {<<"int">>, <<"string">>, <<"int", "string">>}

Flags == [json : BOOLEAN, multi_json : BOOLEAN, format : BOOLEAN,
          remove_verbose_comments : BOOLEAN,
          gen_generic_methods_specializations : BOOLEAN]

(***************************************************************************)
(* Type identity.                                                          *)
(***************************************************************************)
TypeDefinitionIndexTag(tdi) == [kind |-> "tdi", tdi |-> tdi, args |-> <<>>]
GenericInstantiationTag(tdi, args) == [kind |-> "gen", tdi |-> tdi, args |-> args]
\* The erased stand-in for a reference to a definition that has no node.
OpaquePlaceholder == [kind |-> "opaque", tdi |-> U32_MAX, args |-> <<>>]

\* The base reference of a node that has no base, or none yet.
NoBase == [kind |-> "none", tdi |-> U32_MAX, args |-> <<>>]

Call(op, arg) == [op |-> op, arg |-> arg]

\* The ascending sequence of the members of a finite set of numbers.
RECURSIVE Sorted(_)
Sorted(S) ==
    IF S = {} THEN <<>>
    ELSE LET m == CHOOSE x \in S : \A y \in S : x <= y
         IN <<m>> \o Sorted(S \ {m})

NestedTypes(tbl, owner) ==
    {c \in Tdis(tbl) : tbl[c].declaring_type_index = owner}

(***************************************************************************)
(* The context collection (specification section 4.2).                     *)
(***************************************************************************)
HasNode(ns, tag) == \E k \in DOMAIN ns : ns[k].tag = tag

\* The arena position of the node registered under a tag, 0 when there is none.
NodeOf(ns, tag) ==
    IF HasNode(ns, tag)
    THEN CHOOSE k \in DOMAIN ns :
            ns[k].tag = tag /\ \A j \in DOMAIN ns : ns[j].tag = tag => k <= j
    ELSE 0

Skeleton(tag, root) ==
    [tag |-> tag, ctx |-> root, filled |-> FALSE, refs |-> {}, base |-> NoBase,
     handled |-> FALSE, handler_saw_filled |-> FALSE]

get_context_root_tag(alias, tag) ==
    IF \E p \in alias : p[1] = tag
    THEN (CHOOSE p \in alias : p[1] = tag)[2]
    ELSE tag

\* Mutant of make_from: the registry is not consulted first.
make_from_unchecked(ns, alias, bl, tdi) ==
    IF tdi \in bl THEN ns
    ELSE Append(ns, Skeleton(TypeDefinitionIndexTag(tdi),
                             get_context_root_tag(alias, TypeDefinitionIndexTag(tdi))))

\* make_from: a registered tag is returned as it is; a blacklisted definition
\* yields no node; any other gets its skeleton, registered under its tag.
make_from(ns, alias, bl, tdi) ==
    IF HasNode(ns, TypeDefinitionIndexTag(tdi)) THEN ns
    ELSE IF tdi \in bl THEN ns
    ELSE Append(ns, Skeleton(TypeDefinitionIndexTag(tdi),
                             get_context_root_tag(alias, TypeDefinitionIndexTag(tdi))))

\* Every type nested in `owner`, directly or through nested types of its own.
RECURSIVE NestedClosure(_, _)
NestedClosure(tbl, owner) ==
    LET direct == NestedTypes(tbl, owner)
    IN direct \cup UNION {NestedClosure(tbl, c) : c \in direct}

\* The top-down path to the nested types: the tag of every type nested in
\* `owner` is entered in the registry as an alias of the owner's context.
alias_nested_types_il2cpp(alias, tbl, owner, root_tag) ==
    alias \cup {<<TypeDefinitionIndexTag(c), root_tag>> :
                  c \in {n \in NestedClosure(tbl, owner) :
                           ~ \E p \in alias : p[1] = TypeDefinitionIndexTag(n)}}

\* Mutant of make_nested_from: the registry is not consulted first.
make_nested_from_unchecked(ns, alias, bl, tdi) ==
    IF tdi \in bl THEN ns
    ELSE Append(ns, Skeleton(TypeDefinitionIndexTag(tdi),
                             get_context_root_tag(alias, TypeDefinitionIndexTag(tdi))))

\* make_nested_from: the independent path to a nested type.  Its node is made
\* in the context its tag is an alias of, unless the tag has a node already.
make_nested_from(ns, alias, bl, tdi) ==
    IF HasNode(ns, TypeDefinitionIndexTag(tdi)) THEN ns
    ELSE IF tdi \in bl THEN ns
    ELSE Append(ns, Skeleton(TypeDefinitionIndexTag(tdi),
                             get_context_root_tag(alias, TypeDefinitionIndexTag(tdi))))

\* Mutant of generic_tag: the instantiation is keyed by its definition alone.
generic_tag_by_definition(tdi, args) == GenericInstantiationTag(tdi, <<>>)

\* The identity of a generic instantiation: its definition and its arguments.
generic_tag(tdi, args) == GenericInstantiationTag(tdi, args)

\* Whether make_generic_from can find the generic definition of its request.
generic_definition_found(ns, tdi) == HasNode(ns, TypeDefinitionIndexTag(tdi))

\* make_generic_from: the instantiation's node is the registered one, or a
\* clone of the definition's skeleton registered under the instantiation's tag.
make_generic_from(ns, tdi, args) ==
    IF HasNode(ns, generic_tag(tdi, args)) THEN ns
    ELSE Append(ns, Skeleton(generic_tag(tdi, args),
                             ns[NodeOf(ns, TypeDefinitionIndexTag(tdi))].ctx))

\* A reference to a blacklisted definition degrades to the opaque placeholder.
resolve_reference(bl, tdi) ==
    IF tdi \in bl THEN OpaquePlaceholder ELSE TypeDefinitionIndexTag(tdi)

ordinary_fill(node, refs, bl) ==
    [node EXCEPT !.filled = TRUE,
                 !.refs = {resolve_reference(bl, r) : r \in refs}]

apply_handler(node, handlers) ==
    IF node.tag.kind = "tdi" /\ node.tag.tdi \in handlers
    THEN [node EXCEPT !.handled = TRUE, !.handler_saw_filled = node.filled]
    ELSE node

\* Mutant of fill_node: the handler runs on the skeleton, before the ordinary fill.
fill_node_handler_first(node, refs, bl, handlers) ==
    ordinary_fill(apply_handler(node, handlers), refs, bl)

fill_node(node, refs, bl, handlers) ==
    apply_handler(ordinary_fill(node, refs, bl), handlers)

\* `refs` are the references the definition's metadata records hold.
fill(ns, refs, bl, handlers, tag) ==
    IF ~ HasNode(ns, tag) THEN ns
    ELSE [ns EXCEPT ![NodeOf(ns, tag)] = fill_node(ns[NodeOf(ns, tag)], refs, bl, handlers)]

Contexts(ns) == {ns[k].ctx : k \in DOMAIN ns}

\* The definitions the handlers claim: the first definition of each name.
register_handlers(tbl) ==
    {i \in Tdis(tbl) :
        \E h \in DOMAIN HandlerNames :
            /\ tbl[i].full_name = HandlerNames[h]
            /\ \A j \in Tdis(tbl) : tbl[j].full_name = HandlerNames[h] => i <= j}

(***************************************************************************)
(* main(), src/main.rs.                                                    *)
(***************************************************************************)
total == Cardinality(DOMAIN type_definitions)

\* The exit status of a main() that returns Ok(()), and of one that returns Err.
ExitSuccess == 0
ExitFailure == 1

\* `return Ok(())` and the end of main().
ReturnOk == pc' = "exit" /\ exit_code' = ExitSuccess /\ error' = error

\* The `?` operator on an Err: main() returns it and the process reports it.
ReturnErr(what) == pc' = "exit" /\ exit_code' = ExitFailure /\ error' = what

\* The `?` operator on an Ok: main() goes on to `next`.
Continue(next) == pc' = next /\ UNCHANGED <<exit_code, error>>

\* Mutant of blacklist_type: the name is compared with a full name that never
\* matches, so nothing is inserted.
blacklist_type_no_match(tbl, bl, full_name) == bl

\* The closure blacklist_type: the first definition of that full name, if any.
blacklist_type(tbl, bl, full_name) ==
    LET found == {i \in Tdis(tbl) : tbl[i].full_name = full_name}
    IN IF found = {} THEN bl
       ELSE bl \cup {CHOOSE i \in found : \A j \in found : i <= j}

RECURSIVE blacklist_all(_, _, _)
blacklist_all(tbl, bl, names) ==
    IF names = <<>> THEN bl
    ELSE blacklist_all(tbl, blacklist_type(tbl, bl, Head(names)), Tail(names))

\* format_files() has not been entered.
\* STATIC_CONFIG: the paths the run writes under.
OutputPaths == {"header_path", "source_path"}

FormatIdle ==
    [sizes |-> <<>>, queue |-> <<>>, running |-> <<>>, submitted |-> {},
     formatted |-> {}, failed |-> {}, full |-> FALSE]

\* main() starts after an earlier run that left, under each output path, a
\* file this run does not write again.
Init ==
    /\ pc = "reset_output"
    /\ cli \in Flags
    /\ type_definitions = <<>>
    /\ generic_method_table = <<>>
    /\ blacklisted_types = {}
    /\ custom_type_handler = {}
    /\ nodes = <<>>
    /\ alias_context = {}
    /\ idx = 0
    /\ calls = <<>>
    /\ written = {}
    /\ exit_code = -1
    /\ error = ""
    /\ fmt = FormatIdle
    /\ stale_output = OutputPaths
    /\ raw_names = <<>>

\* Lines 98-111: remove_dir_all(header_path), create_dir_all(header_path),
\* create_dir_all(dst_internals_path), INTERNALS_DIR.extract; each may fail.
ResetOutputSteps ==
    <<"remove_dir_all", "create_dir_all", "create_dir_all_internals", "extract">>

\* Lines 98-111: the header path is removed and made again, the internals
\* copied; `done` is the number of steps that succeeded.
ResetOutput ==
    /\ pc = "reset_output"
    /\ \E done \in 0..Len(ResetOutputSteps) :
        /\ stale_output' = IF done >= 1 THEN stale_output \ {"header_path"}
                           ELSE stale_output
        /\ IF done = Len(ResetOutputSteps) THEN Continue("read_inputs")
           ELSE ReturnErr(ResetOutputSteps[done + 1])
    /\ UNCHANGED <<cli, type_definitions, generic_method_table, blacklisted_types,
                   custom_type_handler, nodes, alias_context, idx, calls, written>>
    /\ UNCHANGED <<fmt, raw_names>>

\* Lines 113-139: both files are read and decoded; a failure ends the run.
\* The decoded tables are immutable; the model draws each where main() first
\* reads it (the type table in Blacklist, the generic method table in
\* GenericMethodsBegin, a definition's references in FillTypes).
ReadInputs ==
    /\ pc = "read_inputs"
    /\ \E ok \in BOOLEAN :
        IF ok THEN Continue("json") ELSE ReturnErr("read_inputs")
    /\ UNCHANGED <<cli, type_definitions, generic_method_table, blacklisted_types,
                   custom_type_handler, nodes, alias_context, idx, calls, written>>
    /\ UNCHANGED <<fmt, stale_output, raw_names>>

\* Mutant of Json: the `return Ok(())` of line 144 is missing.
JsonFallsThrough ==
    /\ pc = "json"
    /\ IF cli.json
       THEN /\ calls' = Append(calls, Call("make_json", 0))
            /\ \E ok \in BOOLEAN :
                IF ok THEN Continue("multi_json") ELSE ReturnErr("make_json")
       ELSE /\ Continue("multi_json")
            /\ UNCHANGED calls
    /\ UNCHANGED <<cli, type_definitions, generic_method_table, blacklisted_types,
                   custom_type_handler, nodes, alias_context, idx, written>>
    /\ UNCHANGED <<fmt, stale_output, raw_names>>

\* Lines 141-145.
Json ==
    /\ pc = "json"
    /\ IF cli.json
       THEN /\ calls' = Append(calls, Call("make_json", 0))
            /\ \E ok \in BOOLEAN : IF ok THEN ReturnOk ELSE ReturnErr("make_json")
       ELSE /\ Continue("multi_json")
            /\ UNCHANGED calls
    /\ UNCHANGED <<cli, type_definitions, generic_method_table, blacklisted_types,
                   custom_type_handler, nodes, alias_context, idx, written>>
    /\ UNCHANGED <<fmt, stale_output, raw_names>>

\* Lines 146-150.
MultiJson ==
    /\ pc = "multi_json"
    /\ IF cli.multi_json
       THEN /\ calls' = Append(calls, Call("make_json_folder", 0))
            /\ \E ok \in BOOLEAN :
                IF ok THEN ReturnOk ELSE ReturnErr("make_json_folder")
       ELSE /\ Continue("blacklist")
            /\ UNCHANGED calls
    /\ UNCHANGED <<cli, type_definitions, generic_method_table, blacklisted_types,
                   custom_type_handler, nodes, alias_context, idx, written>>
    /\ UNCHANGED <<fmt, stale_output, raw_names>>

\* Lines 152-244: the collection is made and the blacklist filled.
Blacklist ==
    /\ pc = "blacklist"
    /\ type_definitions' \in TypeTables
    /\ nodes' = <<>>
    /\ alias_context' = {}
    /\ blacklisted_types' = blacklist_all(type_definitions', blacklisted_types, BlacklistNames)
    /\ idx' = 0
    /\ pc' = "make_types"
    /\ UNCHANGED <<cli, generic_method_table, custom_type_handler,
                   calls, written, exit_code, error>>
    /\ UNCHANGED <<fmt, stale_output, raw_names>>

\* Line 256: the first creation loop leaves the nested definitions alone.
MakeTypesSkips(td) == td.declaring_type_index # U32_MAX

\* Mutant of MakeTypesRange: the loop stops one definition short.
MakeTypesRangeShort(n) == 0..(n - 2)

\* Line 250: the range of the first creation loop.
MakeTypesRange(n) == 0..(n - 1)

\* Lines 250-276: one turn of the first creation loop.
MakeTypes ==
    /\ pc = "make_types"
    /\ idx \in MakeTypesRange(total)
    /\ IF MakeTypesSkips(type_definitions[idx])
       THEN UNCHANGED <<nodes, alias_context, calls>>
       ELSE /\ nodes' = make_from(nodes, alias_context, blacklisted_types, idx)
            /\ alias_context' = alias_nested_types_il2cpp(alias_context, type_definitions,
                                     idx, TypeDefinitionIndexTag(idx))
            /\ calls' = calls \o <<Call("make_from", idx),
                                   Call("alias_nested_types_il2cpp", idx)>>
    /\ idx' = idx + 1
    /\ UNCHANGED <<pc, cli, type_definitions, generic_method_table, blacklisted_types,
                   custom_type_handler, written, exit_code, error>>
    /\ UNCHANGED <<fmt, stale_output, raw_names>>

\* Mutant of MakeTypesDone: the loop is also left at a nested definition
\* (`break` for the `continue` of line 257).
MakeTypesDoneEarly ==
    /\ pc = "make_types"
    /\ \/ idx \notin MakeTypesRange(total)
       \/ idx \in MakeTypesRange(total) /\ MakeTypesSkips(type_definitions[idx])
    /\ pc' = "make_nested_types"
    /\ idx' = 0
    /\ UNCHANGED <<cli, type_definitions, generic_method_table, blacklisted_types,
                   custom_type_handler, nodes, alias_context, calls, written,
                   exit_code, error>>
    /\ UNCHANGED <<fmt, stale_output, raw_names>>

MakeTypesDone ==
    /\ pc = "make_types"
    /\ idx \notin MakeTypesRange(total)
    /\ pc' = "make_nested_types"
    /\ idx' = 0
    /\ UNCHANGED <<cli, type_definitions, generic_method_table, blacklisted_types,
                   custom_type_handler, nodes, alias_context, calls, written, exit_code, error>>
    /\ UNCHANGED <<fmt, stale_output, raw_names>>

\* Line 288: the second creation loop leaves the top-level definitions alone.
\* Mutant of MakeNestedSkips: the test of line 288 is missing.
MakeNestedSkipsNone(td) == FALSE

MakeNestedSkips(td) == td.declaring_type_index = U32_MAX

\* Line 283: the range of the second creation loop.
MakeNestedRange(n) == 0..(n - 1)

\* Lines 283-297: one turn of the second creation loop.
MakeNestedTypes ==
    /\ pc = "make_nested_types"
    /\ idx \in MakeNestedRange(total)
    /\ IF MakeNestedSkips(type_definitions[idx])
       THEN UNCHANGED <<nodes, calls>>
       ELSE /\ nodes' = make_nested_from(nodes, alias_context, blacklisted_types, idx)
            /\ calls' = Append(calls, Call("make_nested_from", idx))
    /\ idx' = idx + 1
    /\ UNCHANGED <<pc, cli, type_definitions, generic_method_table, blacklisted_types,
                   custom_type_handler, alias_context, written, exit_code, error>>
    /\ UNCHANGED <<fmt, stale_output, raw_names>>

MakeNestedTypesDone ==
    /\ pc = "make_nested_types"
    /\ idx \notin MakeNestedRange(total)
    /\ pc' = "generic_methods"
    /\ idx' = 0
    /\ UNCHANGED <<cli, type_definitions, generic_method_table, blacklisted_types,
                   custom_type_handler, nodes, alias_context, calls, written, exit_code, error>>
    /\ UNCHANGED <<fmt, stale_output, raw_names>>

\* Line 349: the switch of the generic method pass.
\* Mutant of GenericMethodsEnabled: the pass runs whatever the switch says.
GenericMethodsAlways(c) == TRUE

\* Line 349: the switch of the generic method pass.
GenericMethodsEnabled(c) == c.gen_generic_methods_specializations

\* Lines 349-350: the pass is entered only with the switch set.
GenericMethodsBegin ==
    /\ pc = "generic_methods"
    /\ IF GenericMethodsEnabled(cli)
       THEN /\ generic_method_table' \in GenericMethodTables
            /\ pc' = "generic_methods_loop"
            /\ idx' = 1
       ELSE /\ pc' = "register_handlers"
            /\ UNCHANGED <<generic_method_table, idx>>
    /\ UNCHANGED <<cli, type_definitions, blacklisted_types, custom_type_handler,
                   nodes, alias_context, calls, written, exit_code, error>>
    /\ UNCHANGED <<fmt, stale_output, raw_names>>

\* Lines 352-373: one turn of the generic method loop.
GenericMethods ==
    /\ pc = "generic_methods_loop"
    /\ idx \in DOMAIN generic_method_table
    /\ calls' = Append(calls, Call("fill_generic_method_inst", generic_method_table[idx]))
    /\ idx' = idx + 1
    /\ UNCHANGED <<pc, cli, type_definitions, generic_method_table, blacklisted_types,
                   custom_type_handler, nodes, alias_context, written, exit_code, error>>
    /\ UNCHANGED <<fmt, stale_output, raw_names>>

GenericMethodsDone ==
    /\ pc = "generic_methods_loop"
    /\ idx \notin DOMAIN generic_method_table
    /\ pc' = "register_handlers"
    /\ idx' = 0
    /\ UNCHANGED <<cli, type_definitions, generic_method_table, blacklisted_types,
                   custom_type_handler, nodes, alias_context, calls, written, exit_code, error>>
    /\ UNCHANGED <<fmt, stale_output, raw_names>>

Registrations == <<"register_unity", "register_system", "register_value_type">>

\* Lines 376-381: the three registrations, each of which may fail.
RegisterHandlers ==
    /\ pc = "register_handlers"
    /\ \E done \in 0..Len(Registrations) :
        /\ calls' = calls \o
              [k \in 1..(IF done < Len(Registrations) THEN done + 1 ELSE done) |->
                  Call(Registrations[k], 0)]
        /\ IF done = Len(Registrations)
           THEN /\ custom_type_handler' = register_handlers(type_definitions)
                /\ Continue("fill_types")
           ELSE /\ custom_type_handler' = custom_type_handler
                /\ ReturnErr(Registrations[done + 1])
    /\ idx' = 0
    /\ UNCHANGED <<cli, type_definitions, generic_method_table, blacklisted_types,
                   nodes, alias_context, written>>
    /\ UNCHANGED <<fmt, stale_output, raw_names>>

\* Line 388: the range of the fill loop.
FillRange(n) == 0..(n - 1)

\* Lines 388-401: one turn of the fill loop.
FillTypes ==
    /\ pc = "fill_types"
    /\ idx \in FillRange(total)
    /\ \E refs \in References(type_definitions) :
        nodes' = fill(nodes, refs, blacklisted_types, custom_type_handler,
                      TypeDefinitionIndexTag(idx))
    /\ calls' = Append(calls, Call("fill", idx))
    /\ idx' = idx + 1
    /\ UNCHANGED <<pc, cli, type_definitions, generic_method_table, blacklisted_types,
                   custom_type_handler, alias_context, written, exit_code, error>>
    /\ UNCHANGED <<fmt, stale_output, raw_names>>

FillTypesDone ==
    /\ pc = "fill_types"
    /\ idx \notin FillRange(total)
    /\ pc' = "remove_comments"
    /\ UNCHANGED <<cli, type_definitions, generic_method_table, blacklisted_types,
                   custom_type_handler, nodes, alias_context, idx, calls, written,
                   exit_code, error>>
    /\ UNCHANGED <<fmt, stale_output, raw_names>>

\* Lines 404-406.
RemoveComments ==
    /\ pc = "remove_comments"
    /\ IF cli.remove_verbose_comments
       THEN /\ calls' = Append(calls, Call("remove_coments", 0))
            /\ \E ok \in BOOLEAN :
                IF ok THEN Continue("write") ELSE ReturnErr("remove_coments")
       ELSE /\ Continue("write")
            /\ UNCHANGED calls
    /\ UNCHANGED <<cli, type_definitions, generic_method_table, blacklisted_types,
                   custom_type_handler, nodes, alias_context, idx, written>>
    /\ UNCHANGED <<fmt, stale_output, raw_names>>

\* Lines 408-411: every context is written, then the namespace headers.
WriteAll ==
    /\ pc = "write"
    /\ \/ /\ written' = Contexts(nodes)
          /\ calls' = calls \o <<Call("write_all", 0), Call("write_namespace_headers", 0)>>
          /\ \E ok \in BOOLEAN :
                IF ok THEN Continue("format")
                ELSE ReturnErr("write_namespace_headers")
       \/ /\ \E some \in SUBSET Contexts(nodes) :
                some # Contexts(nodes) /\ written' = some
          /\ calls' = Append(calls, Call("write_all", 0))
          /\ ReturnErr("write_all")
    /\ UNCHANGED <<cli, type_definitions, generic_method_table, blacklisted_types,
                   custom_type_handler, nodes, alias_context, idx>>
    /\ UNCHANGED <<fmt, stale_output, raw_names>>

\* Lines 719-723: the formatter runs when asked for; then the run ends.
Format ==
    /\ pc = "format"
    /\ IF cli.format
       THEN /\ calls' = Append(calls, Call("format_files", 0))
            /\ \E ok \in BOOLEAN : IF ok THEN ReturnOk ELSE ReturnErr("format_files")
       ELSE /\ ReturnOk
            /\ UNCHANGED calls
    /\ UNCHANGED <<cli, type_definitions, generic_method_table, blacklisted_types,
                   custom_type_handler, nodes, alias_context, idx, written>>
    /\ UNCHANGED <<fmt, stale_output, raw_names>>

Next ==
    \/ ResetOutput
    \/ ReadInputs
    \/ Json
    \/ MultiJson
    \/ Blacklist
    \/ MakeTypes
    \/ MakeTypesDone
    \/ MakeNestedTypes
    \/ MakeNestedTypesDone
    \/ GenericMethodsBegin
    \/ GenericMethods
    \/ GenericMethodsDone
    \/ RegisterHandlers
    \/ FillTypes
    \/ FillTypesDone
    \/ RemoveComments
    \/ WriteAll
    \/ Format

Spec == Init /\ [][Next]_vars

\* The runs of main() that are asked for source files, not for JSON.
InitGenerate == Init /\ ~ cli.json /\ ~ cli.multi_json

SpecGenerate == InitGenerate /\ [][Next]_vars

(***************************************************************************)
(* The creation operations of the collection under any sequence of         *)
(* requests, as main() makes them (lines 264-275, 296, 319).               *)
(***************************************************************************)
InitCalls ==
    /\ pc = "requests"
    /\ cli = [json |-> FALSE, multi_json |-> FALSE, format |-> FALSE,
              remove_verbose_comments |-> FALSE,
              gen_generic_methods_specializations |-> FALSE]
    /\ type_definitions \in TypeTables
    /\ generic_method_table = <<>>
    /\ blacklisted_types = blacklist_all(type_definitions, {}, BlacklistNames)
    /\ custom_type_handler = {}
    /\ nodes = <<>>
    /\ alias_context = {}
    /\ idx = 0
    /\ calls = <<>>
    /\ written = {}
    /\ exit_code = -1
    /\ error = ""
    /\ fmt = FormatIdle
    /\ stale_output = OutputPaths
    /\ raw_names = <<>>

\* A request, with the arena position of the node it resolved to (0: none).
Request(op, tdi, args, node) ==
    Call(op, [tdi |-> tdi, args |-> args, node |-> node])

\* Lines 264-275 on any top-level definition.
RequestMakeFrom ==
    /\ pc = "requests" /\ Len(calls) < MaxCalls
    /\ \E tdi \in Tdis(type_definitions) :
        /\ type_definitions[tdi].declaring_type_index = U32_MAX
        /\ nodes' = make_from(nodes, alias_context, blacklisted_types, tdi)
        /\ alias_context' = alias_nested_types_il2cpp(alias_context, type_definitions,
                                 tdi, TypeDefinitionIndexTag(tdi))
        /\ calls' = Append(calls, Request("make_from", tdi, <<>>,
                                          NodeOf(nodes', TypeDefinitionIndexTag(tdi))))
    /\ UNCHANGED <<pc, cli, type_definitions, generic_method_table, blacklisted_types,
                   custom_type_handler, idx, written, exit_code, error, fmt,
                   stale_output, raw_names>>

\* Line 296 on any nested definition.
RequestMakeNestedFrom ==
    /\ pc = "requests" /\ Len(calls) < MaxCalls
    /\ \E tdi \in Tdis(type_definitions) :
        /\ type_definitions[tdi].declaring_type_index # U32_MAX
        /\ nodes' = make_nested_from(nodes, alias_context, blacklisted_types, tdi)
        /\ calls' = Append(calls, Request("make_nested_from", tdi, <<>>,
                                          NodeOf(nodes', TypeDefinitionIndexTag(tdi))))
    /\ UNCHANGED <<pc, cli, type_definitions, generic_method_table, blacklisted_types,
                   custom_type_handler, alias_context, idx, written, exit_code, error,
                   fmt, stale_output, raw_names>>

\* Line 319 on any definition and argument list.  A request whose generic
\* definition cannot be found ends the run.
RequestMakeGenericFrom ==
    /\ pc = "requests" /\ Len(calls) < MaxCalls
    /\ \E tdi \in Tdis(type_definitions), args \in TypeArgumentLists :
        IF HasNode(nodes, generic_tag(tdi, args)) \/ generic_definition_found(nodes, tdi)
        THEN /\ nodes' = make_generic_from(nodes, tdi, args)
             /\ calls' = Append(calls, Request("make_generic_from", tdi, args,
                                               NodeOf(nodes', generic_tag(tdi, args))))
             /\ UNCHANGED <<pc, exit_code, error>>
        ELSE /\ calls' = Append(calls, Request("make_generic_from", tdi, args, 0))
             /\ ReturnErr("make_generic_from")
             /\ UNCHANGED nodes
    /\ UNCHANGED <<cli, type_definitions, generic_method_table, blacklisted_types,
                   custom_type_handler, alias_context, idx, written, fmt,
                   stale_output, raw_names>>

NextCalls ==
    \/ RequestMakeFrom
    \/ RequestMakeNestedFrom
    \/ RequestMakeGenericFrom

SpecCalls == InitCalls /\ [][NextCalls]_vars

\* The tag a request asks for.
RequestTag(c) ==
    IF c.op = "make_generic_from"
    THEN GenericInstantiationTag(c.arg.tdi, c.arg.args)
    ELSE TypeDefinitionIndexTag(c.arg.tdi)

Accepted(k) == calls[k].arg.node # 0

NodesOf(tag) == {k \in DOMAIN nodes : nodes[k].tag = tag}

GenericInstantiationDistinctness ==
    \A i, j \in DOMAIN calls :
        (/\ calls[i].op = "make_generic_from" /\ calls[j].op = "make_generic_from"
         /\ Accepted(i) /\ Accepted(j)
         /\ calls[i].arg.tdi = calls[j].arg.tdi)
        => (calls[i].arg.node = calls[j].arg.node
               <=> calls[i].arg.args = calls[j].arg.args)

\* Two requests against one definition with different argument lists, one of
\* which is a prefix of the other.
GenericInstantiationDistinctnessWitness ==
    \E i, j \in DOMAIN calls :
        /\ calls[i].op = "make_generic_from" /\ calls[j].op = "make_generic_from"
        /\ Accepted(i) /\ Accepted(j)
        /\ calls[i].arg.tdi = calls[j].arg.tdi
        /\ calls[i].arg.args = <<"int">> /\ calls[j].arg.args = <<"int", "string">>
        /\ calls[i].arg.node # calls[j].arg.node

ReachedTopDown(tdi) == \E p \in alias_context : p[1] = TypeDefinitionIndexTag(tdi)

ReachedIndependently(tdi) ==
    \E k \in DOMAIN calls :
        calls[k].op = "make_nested_from" /\ calls[k].arg.tdi = tdi /\ Accepted(k)

Workers == {"w1", "w2"}

\* On-disk sizes of a file; 0 also stands for a file whose metadata cannot
\* be read.
FileSizes == {0, 1}

\* The directories that are explored: the size of each file, in walk order.
Directories == UNION {[1..n -> FileSizes] : n \in 1..MaxFiles}

\* sorted_by(file_size): ascending, files of equal size in their given order.
RECURSIVE sorted_by(_, _)
sorted_by(sizes, files) ==
    IF files = {} THEN <<>>
    ELSE LET m == CHOOSE x \in files : \A y \in files :
                     \/ sizes[x] < sizes[y]
                     \/ sizes[x] = sizes[y] /\ x <= y
         IN <<m>> \o sorted_by(sizes, files \ {m})

rev(seq) == [k \in 1..Len(seq) |-> seq[Len(seq) + 1 - k]]

InitFormat ==
    /\ pc = "format_files"
    /\ cli = [json |-> FALSE, multi_json |-> FALSE, format |-> TRUE,
              remove_verbose_comments |-> FALSE,
              gen_generic_methods_specializations |-> FALSE]
    /\ type_definitions = <<>>
    /\ generic_method_table = <<>>
    /\ blacklisted_types = {}
    /\ custom_type_handler = {}
    /\ nodes = <<>>
    /\ alias_context = {}
    /\ idx = 0
    /\ calls = <<>>
    /\ written = {}
    /\ exit_code = -1
    /\ error = ""
    /\ \E sizes \in Directories : fmt = [FormatIdle EXCEPT !.sizes = sizes]
    /\ stale_output = {}
    /\ raw_names = <<>>

UnchangedByFormat ==
    UNCHANGED <<cli, type_definitions, generic_method_table, blacklisted_types,
                custom_type_handler, nodes, alias_context, idx, written,
                stale_output, raw_names>>

\* Lines 726-761: walk the header path, order the files big to small and
\* hand them to the pool.
FormatFiles ==
    /\ pc = "format_files"
    /\ \/ /\ fmt' = [fmt EXCEPT
                        !.queue = rev(sorted_by(fmt.sizes, DOMAIN fmt.sizes)),
                        !.running = [w \in Workers |-> 0]]
          /\ Continue("formatting")
       \/ /\ ReturnErr("format_files")
          /\ UNCHANGED <<fmt, stale_output, raw_names>>
    /\ UNCHANGED calls
    /\ UnchangedByFormat

\* par_bridge(): an idle worker takes the next file, unless try_for_each
\* has already seen an error.
WorkerTake(w) ==
    /\ pc = "formatting"
    /\ fmt.running[w] = 0
    /\ ~fmt.full
    /\ fmt.queue # <<>>
    /\ fmt' = [fmt EXCEPT !.queue = Tail(fmt.queue),
                          !.running[w] = Head(fmt.queue),
                          !.submitted = @ \cup {Head(fmt.queue)}]
    /\ calls' = Append(calls, Call("clang-format", Head(fmt.queue)))
    /\ UNCHANGED <<pc, exit_code, error>>
    /\ UnchangedByFormat

\* The outcomes of lines 769-786 for one file.
FormatOutcomes == {"ok", "spawn_error", "stderr_not_utf8", "exit_status"}

\* Lines 762-787: the closure returns; an Err fills the consumer.
WorkerFinish(w) ==
    /\ pc = "formatting"
    /\ fmt.running[w] # 0
    /\ \E outcome \in FormatOutcomes :
          fmt' = IF outcome = "ok"
                 THEN [fmt EXCEPT !.running[w] = 0,
                                  !.formatted = @ \cup {fmt.running[w]}]
                 ELSE [fmt EXCEPT !.running[w] = 0,
                                  !.failed = @ \cup {fmt.running[w]},
                                  !.full = TRUE]
    /\ UNCHANGED <<pc, exit_code, error, calls>>
    /\ UnchangedByFormat

\* Lines 787-790 and 720-723: try_for_each returns once every worker is
\* done, with an error of the closure if there was one.
FormatFilesReturn ==
    /\ pc = "formatting"
    /\ \A w \in Workers : fmt.running[w] = 0
    /\ fmt.full \/ fmt.queue = <<>>
    /\ IF fmt.failed = {} THEN ReturnOk ELSE ReturnErr("format_files")
    /\ UNCHANGED <<fmt, calls>>
    /\ UnchangedByFormat

NextFormat ==
    \/ FormatFiles
    \/ \E w \in Workers : WorkerTake(w)
    \/ \E w \in Workers : WorkerFinish(w)
    \/ FormatFilesReturn

SpecFormat == InitFormat /\ [][NextFormat]_vars

\* C8: when format_files() has returned after clang-format failed on a file,
\* every other file under the header path was submitted to clang-format and
\* processed.
FormatFailuresAreNonFatal ==
    (pc = "exit" /\ fmt.failed # {}) =>
        fmt.submitted = DOMAIN fmt.sizes

(***************************************************************************)
(* The emitter (specification section 4.4): the unit of one context.       *)
(***************************************************************************)
\* The owned nodes a node must come after: its base and its enclosing type.
depending_types(ns, tbl, k) ==
    {j \in DOMAIN ns :
        /\ j # k /\ ns[j].ctx = ns[k].ctx
        /\ \/ ns[j].tag = ns[k].base
           \/ /\ ns[k].tag.kind = "tdi"
              /\ ns[j].tag = TypeDefinitionIndexTag(
                                 tbl[ns[k].tag.tdi].declaring_type_index)}

FirstByTdi(ns, ks) ==
    CHOOSE k \in ks : \A j \in ks : ns[k].tag.tdi <= ns[j].tag.tdi

\* Mutant of dependency_order: the nodes in the order of the type table.
RECURSIVE table_order(_, _, _, _)
table_order(ns, tbl, todo, done) ==
    IF todo = {} THEN done
    ELSE LET m == FirstByTdi(ns, todo)
         IN table_order(ns, tbl, todo \ {m}, Append(done, m))

\* Dependency order: a node comes after the owned nodes it depends on; among
\* the nodes that are ready, the first of the type table comes first.
RECURSIVE dependency_order(_, _, _, _)
dependency_order(ns, tbl, todo, done) ==
    IF todo = {} THEN done
    ELSE LET ready == {k \in todo : depending_types(ns, tbl, k) \cap todo = {}}
             m == FirstByTdi(ns, IF ready = {} THEN todo ELSE ready)
         IN dependency_order(ns, tbl, todo \ {m}, Append(done, m))

Declaration(kind, tag, uses) == [kind |-> kind, tag |-> tag, uses |-> uses]

\* Forward declarations of a set of tags, in the order of the type table.
RECURSIVE forward_declarations(_)
forward_declarations(tags) ==
    IF tags = {} THEN <<>>
    ELSE LET t == CHOOSE x \in tags : \A y \in tags : x.tdi <= y.tdi
         IN <<Declaration("forward", t, {})>> \o forward_declarations(tags \ {t})

\* The tags a node uses: its resolved references, the placeholder left out.
uses_of(node) == node.refs \ {OpaquePlaceholder, NoBase}

Declared(unit) == {unit[q].tag : q \in DOMAIN unit}

\* The full declarations, in the given order.  An owned type that a
\* declaration uses by reference before the unit has declared it is forward
\* declared first: section 4.4 demands that no use precedes its declaration.
RECURSIVE full_declarations(_, _, _)
full_declarations(ns, order, unit) ==
    IF order = <<>> THEN unit
    ELSE LET node == ns[Head(order)]
             late == (uses_of(node) \ {node.base}) \ Declared(unit)
         IN full_declarations(ns, Tail(order),
                (unit \o forward_declarations(late))
                    \o <<Declaration("full", node.tag, uses_of(node))>>)

\* The unit of a context: a forward declaration of every type its nodes use
\* and it does not own, then its nodes in dependency order.
render(ns, tbl, ctx) ==
    LET owned == {k \in DOMAIN ns : ns[k].ctx = ctx}
        owned_tags == {ns[k].tag : k \in owned}
        used == UNION {uses_of(ns[k]) : k \in owned}
    IN full_declarations(ns, dependency_order(ns, tbl, owned, <<>>),
                         forward_declarations(used \ owned_tags))

(***************************************************************************)
(* main() from the fill pass on, with the base of every definition told    *)
(* apart from its other references.                                        *)
(***************************************************************************)
\* Lines 245-277 as one fold over the top-level definitions.
RECURSIVE make_types(_, _, _, _)
make_types(tbl, bl, collection, tdis) ==
    IF tdis = <<>> THEN collection
    ELSE make_types(tbl, bl,
            [nodes |-> make_from(collection.nodes, collection.alias, bl, Head(tdis)),
             alias |-> alias_nested_types_il2cpp(collection.alias, tbl, Head(tdis),
                           TypeDefinitionIndexTag(Head(tdis)))],
            Tail(tdis))

\* Lines 278-298 as one fold over the nested definitions.
RECURSIVE make_nested_types(_, _, _, _)
make_nested_types(tbl, bl, collection, tdis) ==
    IF tdis = <<>> THEN collection
    ELSE make_nested_types(tbl, bl,
            [collection EXCEPT
                !.nodes = make_nested_from(collection.nodes, collection.alias, bl,
                                           Head(tdis))],
            Tail(tdis))

\* The collection when the fill pass begins.
created(tbl, bl) ==
    make_nested_types(tbl, bl,
        make_types(tbl, bl, [nodes |-> <<>>, alias |-> {}],
                   Sorted({i \in Tdis(tbl) : ~ MakeTypesSkips(tbl[i])})),
        Sorted({i \in Tdis(tbl) : ~ MakeNestedSkips(tbl[i])}))

InitEmit ==
    /\ pc = "fill_types"
    /\ cli = [json |-> FALSE, multi_json |-> FALSE, format |-> FALSE,
              remove_verbose_comments |-> FALSE,
              gen_generic_methods_specializations |-> FALSE]
    /\ type_definitions \in TypeTables
    /\ generic_method_table = <<>>
    /\ blacklisted_types = blacklist_all(type_definitions, {}, BlacklistNames)
    /\ custom_type_handler = register_handlers(type_definitions)
    /\ nodes = created(type_definitions, blacklisted_types).nodes
    /\ alias_context = created(type_definitions, blacklisted_types).alias
    /\ idx = 0
    /\ calls = <<>>
    /\ written = {}
    /\ exit_code = -1
    /\ error = ""
    /\ fmt = FormatIdle
    /\ stale_output = {"source_path"}
    /\ raw_names = <<>>

\* The definitions a definition depends on: its base, once filled in, and its
\* declaring type.
RECURSIVE DependsOn(_, _, _, _)
DependsOn(ns, tbl, from, fuel) ==
    LET node == NodeOf(ns, TypeDefinitionIndexTag(from))
        direct == (IF node # 0 /\ ns[node].base.kind = "tdi"
                   THEN {ns[node].base.tdi} ELSE {})
                  \cup (IF tbl[from].declaring_type_index # U32_MAX
                        THEN {tbl[from].declaring_type_index} ELSE {})
    IN IF fuel = 0 THEN direct
       ELSE direct \cup UNION {DependsOn(ns, tbl, d, fuel - 1) : d \in direct}

\* The bases the metadata can give definition tdi: none, or a definition that
\* does not depend on tdi.
Bases(ns, tbl, tdi) ==
    {U32_MAX} \cup {b \in Tdis(tbl) :
                      b # tdi /\ tdi \notin DependsOn(ns, tbl, b, Cardinality(Tdis(tbl)))}

\* fill on a definition with base `base` and the other references `refs`.
fill_body(ns, base, refs, bl, handlers, tag) ==
    LET all == refs \cup (IF base = U32_MAX THEN {} ELSE {base})
        filled == fill(ns, all, bl, handlers, tag)
    IN IF HasNode(ns, tag) /\ base # U32_MAX
       THEN [filled EXCEPT ![NodeOf(ns, tag)].base = resolve_reference(bl, base)]
       ELSE filled

\* Lines 388-401: one turn of the fill loop.
FillBodies ==
    /\ pc = "fill_types"
    /\ idx \in FillRange(total)
    /\ \E base \in Bases(nodes, type_definitions, idx),
          refs \in References(type_definitions) :
        nodes' = fill_body(nodes, base, refs, blacklisted_types, custom_type_handler,
                           TypeDefinitionIndexTag(idx))
    /\ calls' = Append(calls, Call("fill", idx))
    /\ idx' = idx + 1
    /\ UNCHANGED <<pc, cli, type_definitions, generic_method_table, blacklisted_types,
                   custom_type_handler, alias_context, written, exit_code, error>>
    /\ UNCHANGED <<fmt, stale_output, raw_names>>

Units(ns, tbl, ctxs) == {[ctx |-> c, unit |-> render(ns, tbl, c)] : c \in ctxs}

\* Lines 408-411: the unit of every context is written, then the namespace
\* headers.
WriteUnits ==
    /\ pc = "write"
    /\ \/ /\ written' = Units(nodes, type_definitions, Contexts(nodes))
          /\ calls' = calls \o <<Call("write_all", 0), Call("write_namespace_headers", 0)>>
          /\ \E ok \in BOOLEAN :
                IF ok THEN Continue("format")
                ELSE ReturnErr("write_namespace_headers")
       \/ /\ \E some \in SUBSET Contexts(nodes) :
                /\ some # Contexts(nodes)
                /\ written' = Units(nodes, type_definitions, some)
          /\ calls' = Append(calls, Call("write_all", 0))
          /\ ReturnErr("write_all")
    /\ UNCHANGED <<cli, type_definitions, generic_method_table, blacklisted_types,
                   custom_type_handler, nodes, alias_context, idx>>
    /\ UNCHANGED <<fmt, stale_output, raw_names>>

NextEmit ==
    \/ FillBodies
    \/ FillTypesDone
    \/ RemoveComments
    \/ WriteUnits
    \/ Format

SpecEmit == InitEmit /\ [][NextEmit]_vars

FullPosition(unit, tag) ==
    CHOOSE q \in DOMAIN unit : unit[q].kind = "full" /\ unit[q].tag = tag

Backtick == "backtick"

\* The characters of a raw name: the five the transforms replace and two
\* ordinary identifier characters.
NameChars == {"<", ">", Backtick, "/", ".", "a", "_"}

RawNames == UNION {[1..n -> NameChars] : n \in 0..MaxNameLen}

\* String::replace(from, to): every occurrence of the character from
\* becomes the string to.
RECURSIVE replace(_, _, _)
replace(string, from, to) ==
    IF string = <<>> THEN <<>>
    ELSE (IF Head(string) = from THEN to ELSE <<Head(string)>>)
            \o replace(Tail(string), from, to)

namespace_cpp(string) ==
    replace(replace(replace(replace(replace(string,
        "<", <<"_">>), ">", <<"_">>), Backtick, <<"_">>), "/", <<"_">>), ".", <<":", ":">>)

\* Mutant of name_cpp: the replacement of '/' is missing.
name_cpp_keeps_slash(string) ==
    replace(replace(replace(replace(string,
        "<", <<"_">>), Backtick, <<"_">>), ">", <<"_">>), ".", <<"_">>)

name_cpp(string) ==
    replace(replace(replace(replace(replace(string,
        "<", <<"_">>), Backtick, <<"_">>), ">", <<"_">>), "/", <<"_">>), ".", <<"_">>)

namespace_path(string) ==
    replace(replace(replace(replace(replace(string,
        "<", <<"_">>), ">", <<"_">>), Backtick, <<"_">>), "/", <<"_">>), ".", <<"/">>)

path_name(string) ==
    replace(replace(replace(replace(replace(string,
        "<", <<"_">>), ">", <<"_">>), Backtick, <<"_">>), ".", <<"_">>), "/", <<"_">>)

InitNames ==
    /\ pc = "namespace_cpp"
    /\ cli = [json |-> FALSE, multi_json |-> FALSE, format |-> FALSE,
              remove_verbose_comments |-> FALSE,
              gen_generic_methods_specializations |-> FALSE]
    /\ type_definitions = <<>>
    /\ generic_method_table = <<>>
    /\ blacklisted_types = {}
    /\ custom_type_handler = {}
    /\ nodes = <<>>
    /\ alias_context = {}
    /\ idx = 0
    /\ calls = <<>>
    /\ written = {}
    /\ exit_code = -1
    /\ error = ""
    /\ fmt = FormatIdle
    /\ stale_output = {}
    /\ raw_names \in RawNames \X RawNames

\* A transform applied to both names; `out` holds the two results.
Transformed(op, out) == Call(op, [raw |-> raw_names, out |-> out])

UnchangedByNames ==
    UNCHANGED <<cli, type_definitions, generic_method_table, blacklisted_types,
                custom_type_handler, nodes, alias_context, idx, written, exit_code,
                error, fmt, stale_output, raw_names>>

NamespaceCpp ==
    /\ pc = "namespace_cpp"
    /\ calls' = Append(calls, Transformed("namespace_cpp",
                    <<namespace_cpp(raw_names[1]), namespace_cpp(raw_names[2])>>))
    /\ pc' = "name_cpp"
    /\ UnchangedByNames

NameCpp ==
    /\ pc = "name_cpp"
    /\ calls' = Append(calls, Transformed("name_cpp",
                    <<name_cpp(raw_names[1]), name_cpp(raw_names[2])>>))
    /\ pc' = "namespace_path"
    /\ UnchangedByNames

NamespacePath ==
    /\ pc = "namespace_path"
    /\ calls' = Append(calls, Transformed("namespace_path",
                    <<namespace_path(raw_names[1]), namespace_path(raw_names[2])>>))
    /\ pc' = "path_name"
    /\ UnchangedByNames

PathName ==
    /\ pc = "path_name"
    /\ calls' = Append(calls, Transformed("path_name",
                    <<path_name(raw_names[1]), path_name(raw_names[2])>>))
    /\ pc' = "named"
    /\ UnchangedByNames

NextNames ==
    \/ NamespaceCpp
    \/ NameCpp
    \/ NamespacePath
    \/ PathName

SpecNames == InitNames /\ [][NextNames]_vars

\* C13: none of namespace_cpp, name_cpp, namespace_path and path_name gives
\* two different raw names the same result.
NamingTransformsInjective ==
    \A k \in DOMAIN calls :
        calls[k].arg.raw[1] # calls[k].arg.raw[2]
            => calls[k].arg.out[1] # calls[k].arg.out[2]

ReplacedChars == {"<", ">", Backtick, "/", "."}

OutOf(op, i) == calls[CHOOSE k \in DOMAIN calls : calls[k].op = op].arg.out[i]

\* C15: name_cpp and path_name give every raw name the same result, and the
\* result holds none of '<', '>', the backtick, '/' and '.'.
NameCppIsPathName ==
    pc = "named" =>
        \A i \in 1..2 :
            /\ OutOf("name_cpp", i) = OutOf("path_name", i)
            /\ \A q \in DOMAIN OutOf("name_cpp", i) :
                  OutOf("name_cpp", i)[q] \notin ReplacedChars

\* Both transforms ran on a name that holds '/' before '.', and on one that
\* holds '.' before '/'.
NameCppIsPathNameWitness ==
    /\ pc = "named"
    /\ raw_names = << <<"/", ".">>, <<".", "/">> >>

(***************************************************************************)
(* Properties of a run of main().                                          *)
(***************************************************************************)
HasCall(ops) == \E k \in DOMAIN calls : calls[k].op \in ops

\* The pass a call belongs to: 1 create top-level, 2 create nested, 3 generic
\* closure, 4 register handlers, 5 fill, 6 emit; 0 for a call of no pass.
PassNumbers ==
    [make_from |-> 1, alias_nested_types_il2cpp |-> 1, make_nested_from |-> 2,
     fill_generic_method_inst |-> 3, register_unity |-> 4, register_system |-> 4,
     register_value_type |-> 4, fill |-> 5, write_all |-> 6,
     write_namespace_headers |-> 6]

PassOf(op) == IF op \in DOMAIN PassNumbers THEN PassNumbers[op] ELSE 0

CallsOfPass(p) ==
    LET InPass(c) == PassOf(c.op) = p IN SelectSeq(calls, InPass)

RECURSIVE TopLevelCalls(_)
TopLevelCalls(tdis) ==
    IF tdis = <<>> THEN <<>>
    ELSE <<Call("make_from", Head(tdis)), Call("alias_nested_types_il2cpp", Head(tdis))>>
            \o TopLevelCalls(Tail(tdis))

\* The calls a pass makes when it runs to its end.
CompletePass(p) ==
    CASE p = 1 ->
           TopLevelCalls(Sorted({i \in Tdis(type_definitions) :
                            type_definitions[i].declaring_type_index = U32_MAX}))
      [] p = 2 ->
           LET nested == Sorted({i \in Tdis(type_definitions) :
                            type_definitions[i].declaring_type_index # U32_MAX})
           IN [k \in 1..Len(nested) |-> Call("make_nested_from", nested[k])]
      [] p = 3 ->
           IF cli.gen_generic_methods_specializations
           THEN [k \in 1..Len(generic_method_table) |->
                    Call("fill_generic_method_inst", generic_method_table[k])]
           ELSE <<>>
      [] p = 4 ->
           <<Call("register_unity", 0), Call("register_system", 0),
             Call("register_value_type", 0)>>
      [] p = 5 -> [k \in 1..total |-> Call("fill", k - 1)]

\* C2: the calls of a run are in pass order (create top-level, create nested,
\* generic closure, register handlers, fill, emit), and when a call of a pass
\* has been made every earlier pass has made all of its calls: no fill before
\* the last make_from and make_nested_from, no write before the last fill.
PassOrdering ==
    LET InSomePass(c) == PassOf(c.op) > 0
        graph == SelectSeq(calls, InSomePass)
        passes == [k \in 1..Len(graph) |-> PassOf(graph[k].op)]
    IN /\ \A k \in 1..(Len(passes) - 1) : passes[k] <= passes[k + 1]
       /\ \A q \in 1..5 :
             (\E k \in 1..Len(passes) : passes[k] > q)
                => CallsOfPass(q) = CompletePass(q)

\* A run that emitted source and ended well, after calls of every pass.
PassOrderingWitness ==
    /\ pc = "exit" /\ exit_code = ExitSuccess
    /\ HasCall({"write_namespace_headers"})
    /\ HasCall({"make_nested_from"})
    /\ HasCall({"fill_generic_method_inst"})
    /\ HasCall({"fill"})

FillPassCompleted == total > 0 /\ Len(CallsOfPass(5)) = total

BlacklistTargets ==
    {i \in Tdis(type_definitions) :
        /\ \E h \in DOMAIN BlacklistNames :
              type_definitions[i].full_name = BlacklistNames[h]
        /\ \A j \in Tdis(type_definitions) :
              j < i => type_definitions[j].full_name # type_definitions[i].full_name}

\* C6: the blacklist is complete when the first make_from is made, and from
\* then on no node of any context belongs to a blacklisted definition.
BlacklistContainment ==
    /\ (pc = "make_types" \/ HasCall({"make_from", "make_nested_from", "fill"}))
          => BlacklistTargets \subseteq blacklisted_types
    /\ \A k \in DOMAIN nodes :
          nodes[k].tag.kind = "tdi" => nodes[k].tag.tdi \notin blacklisted_types

\* make_from and fill were both called on a blacklisted definition, beside
\* definitions that do have nodes.
BlacklistContainmentWitness ==
    /\ \E k \in DOMAIN calls :
          calls[k].op = "make_from" /\ calls[k].arg \in blacklisted_types
    /\ \E k \in DOMAIN calls :
          calls[k].op = "fill" /\ calls[k].arg \in blacklisted_types
    /\ nodes # <<>>

GraphCalls ==
    {"make_from", "alias_nested_types_il2cpp", "make_nested_from",
     "fill_generic_method_inst", "fill", "write_all", "write_namespace_headers"}

\* C9: a run that is given a JSON path creates no context, fills nothing and
\* writes no source file; a run that writes source files exported no JSON.
JsonExclusive ==
    /\ (cli.json \/ cli.multi_json) =>
          nodes = <<>> /\ written = {} /\ ~ HasCall(GraphCalls)
    /\ HasCall({"write_all", "write_namespace_headers"}) =>
          ~ HasCall({"make_json", "make_json_folder"})

JsonExclusiveWitness ==
    /\ cli.multi_json /\ ~ cli.json
    /\ pc = "exit" /\ exit_code = ExitSuccess
    /\ HasCall({"make_json_folder"})

\* The output modes the command line asks for have all been completed.
\* The generic method pass is over: main() is at the registrations or beyond.
GenericMethodPassOver ==
    \/ pc \in {"register_handlers", "fill_types", "remove_comments", "write", "format"}
    \/ \E k \in DOMAIN calls : PassOf(calls[k].op) > 3

GenericMethodCallsGated ==
    LET made == CallsOfPass(3)
    IN IF cli.gen_generic_methods_specializations
       THEN /\ Len(made) <= Len(generic_method_table)
            /\ \A k \in DOMAIN made :
                  made[k] = Call("fill_generic_method_inst", generic_method_table[k])
            /\ GenericMethodPassOver => Len(made) = Len(generic_method_table)
       ELSE made = <<>>

\* C14: with the switch set fill_generic_method_inst is called once for every
\* entry of the generic method table, in table order; with the switch off it
\* is never called, and the step from the nested creation pass to the
\* registrations leaves the registry as it is.
MethodGenericFillGated ==
    [][/\ GenericMethodCallsGated'
       /\ (pc = "generic_methods" /\ ~ cli.gen_generic_methods_specializations)
             => /\ pc' = "register_handlers"
                /\ nodes' = nodes /\ alias_context' = alias_context]_vars

\* With the switch off main() has reached the registrations with a registry
\* of nested and top-level nodes.
MethodGenericFillGatedWitness ==
    /\ pc = "register_handlers"
    /\ ~ cli.gen_generic_methods_specializations
    /\ \E k \in DOMAIN nodes : nodes[k].ctx # nodes[k].tag

\* The definitions a loop was run on, in call order.
ArgsOf(op) ==
    LET Made(c) == c.op = op
        made == SelectSeq(calls, Made)
    IN [k \in 1..Len(made) |-> made[k].arg]

IsPrefix(a, b) == Len(a) <= Len(b) /\ \A k \in DOMAIN a : a[k] = b[k]

\* A call of a pass after pass p has been made.
Beyond(p) == \E k \in DOMAIN calls : PassOf(calls[k].op) > p

\* C16: the top-level loop handles exactly the definitions without a
\* declaring type and the nested loop exactly those with one, each in
\* ascending index order and each definition once; the fill loop then calls
\* fill once for every index of the table.
CreationPassesPartition ==
    LET top == Sorted({i \in Tdis(type_definitions) :
                         type_definitions[i].declaring_type_index = U32_MAX})
        nested == Sorted({i \in Tdis(type_definitions) :
                            type_definitions[i].declaring_type_index # U32_MAX})
        all == [k \in 1..total |-> k - 1]
        made == ArgsOf("make_from")
        made_nested == ArgsOf("make_nested_from")
        filled == ArgsOf("fill")
    IN /\ IsPrefix(made, top)
       /\ IsPrefix(made_nested, nested)
       /\ IsPrefix(filled, all)
       /\ ArgsOf("alias_nested_types_il2cpp") = made
       /\ Beyond(1) => made = top
       /\ Beyond(2) => made_nested = nested
       /\ Beyond(5) => filled = all

\* A run to the end on a table in which a nested definition comes before a
\* top-level one.
CreationPassesPartitionWitness ==
    /\ pc = "exit" /\ exit_code = ExitSuccess
    /\ HasCall({"fill"})
    /\ \E i, j \in Tdis(type_definitions) :
          /\ i < j
          /\ type_definitions[i].declaring_type_index # U32_MAX
          /\ type_definitions[j].declaring_type_index = U32_MAX

\* C11: a run that ends well leaves no file of an earlier run under the
\* header path or the source path.
OutputRootReset ==
    (pc = "exit" /\ exit_code = ExitSuccess) => stale_output = {}

RequestedModesCompleted ==
    /\ cli.json => HasCall({"make_json"})
    /\ cli.multi_json => HasCall({"make_json_folder"})
    /\ (~ cli.json /\ ~ cli.multi_json) => HasCall({"write_namespace_headers"})

\* C10: the run ends with exit code zero only if every requested output mode
\* has been completed, and with a non-zero code whenever a call failed.
ExitStatus ==
    pc = "exit" =>
        /\ exit_code = ExitSuccess => RequestedModesCompleted
        /\ error # "" => exit_code # ExitSuccess

====
